---- MODULE Spec2Model ----
(***************************************************************************)
(* ModernWebApp (src/script.js): the client-side page router, its          *)
(* fade-out / swap / fade-in transition and its coupling to the browser's  *)
(* session history, as a state machine over the browser's event loop.      *)
(* One action is one task of the event loop: a DOM event handler run to    *)
(* completion, or a timer callback together with the continuation of the   *)
(* async function it resumes.                                              *)
(*                                                                         *)
(* The constructor binds this.handleScroll (line 16), a method the class   *)
(* does not define, so that as written `new ModernWebApp()` throws before  *)
(* init(). The model describes the instance the rest of the class is       *)
(* written for: construction is taken to succeed.                          *)
(***************************************************************************)
EXTENDS Integers, Sequences, FiniteSets, TLC

VARIABLES
  host,              \* what the document and the browser provide (fixed)
  ready,             \* setup() has run: the listeners are installed
  currentPage,       \* this.currentPage
  isLoading,         \* this.isLoading
  pc,                \* where the async loadPage is suspended
  page,              \* the parameter `page` of the suspended loadPage
  content,           \* innerHTML of #main-content
  activeNav,         \* the links carrying class 'active' and aria-current='page'
  title,             \* document.title
  animationObserver, \* this.animationObserver: what it observes
  pageLoaded,        \* detail.page of the last pageLoaded event
  steps,             \* the steps the latest loadPage body has executed
  listenerNav,       \* what became of a navigateTo called by a pageLoaded listener
  connected,         \* the number of connected animation observers
  observed,          \* the elements of the content the connected observer watches
  inView,            \* the elements of the content carrying class 'in-view'
  visible,           \* the elements of the content intersecting the viewport
  entries,           \* the session history: entries of state and URL
  idx,               \* the position of the current entry in entries
  ev,                \* the event handled last
  fadeLeft,          \* ms until the pending timer of fadeOut or fadeIn is due
  loops,             \* the running requestAnimationFrame loops of smoothScrollTo
  scrollTop,         \* window.pageYOffset
  scrolled,          \* .navbar carries class 'scrolled'
  isScrolling,       \* the flag isScrolling of setupScrollEffects
  rafScroll,         \* the number of pending frame callbacks of handleScroll
  scrollSeen,        \* a scroll event has been handled
  ariaExpanded,      \* aria-expanded of .navbar-toggle
  navOpen,           \* .navbar-nav carries class 'active'
  resizeTimer,       \* the timer id in resizeTimer (0: undefined)
  resizeTimers,      \* the pending timers of the resize listener
  sinceResize,       \* ms since the last resize event, up to ResizeMs
  resizeRuns,        \* the runs of handleResize since the last resize event
  renderTimers       \* ModernWebsite: the pages of the pending render timers

loadVars == <<currentPage, isLoading, pc, page, content, activeNav, steps,
              observed, inView, visible, fadeLeft>>
doneVars == <<title, animationObserver, pageLoaded, listenerNav, connected, loops>>
revealVars == <<observed, inView, visible>>
histVars == <<entries, idx>>
scrollVars == <<scrollTop, scrolled, isScrolling, rafScroll, scrollSeen>>
menuVars == <<ariaExpanded, navOpen>>
resizeVars == <<resizeTimer, resizeTimers, sinceResize, resizeRuns>>
chromeVars == <<scrollVars, menuVars, resizeVars>>
vars == <<host, ready, currentPage, isLoading, pc, page, content, activeNav,
          title, animationObserver, pageLoaded, steps, listenerNav, connected,
          observed, inView, visible, entries, idx, ev, fadeLeft, loops,
          scrollTop, scrolled, isScrolling, rafScroll, scrollSeen, ariaExpanded,
          navOpen, resizeTimer, resizeTimers, sinceResize, resizeRuns, renderTimers>>

(* ------------------------------ bounds -------------------------------- *)

\* the session history is kept to at most this many entries
MaxHistory == 3

\* the number of .animate-on-scroll elements of a page payload
NumElements == 2

\* the time that passes in one step of the clock, in ms
TickMs == 50

\* ModernWebsite: at most this many render timers are pending
MaxTimers == 2

\* ModernWebsite: its observers are counted up to this many
MaxObservers == 2

(* ----------------------------- constants ------------------------------ *)

\* the delay of fadeOut's timer, in ms
FadeOutMs == 150

\* the delay of fadeIn's timer, in ms
FadeInMs == 250

\* the duration of smoothScrollTo, in ms
ScrollMs == 500

\* the delay of the resize listener's timer, in ms
ResizeMs == 250

\* the scroll offset above which the navbar is 'scrolled', in px
ScrollThreshold == 50

(* ------------------------------ inputs -------------------------------- *)

\* the scroll offsets the user scrolls to
ScrollOffsets == {0, ScrollThreshold, ScrollThreshold + 1}

\* the pages of the Alt+digit shortcut, in the order of the array
pages == <<"home", "about", "projects", "contact">>

\* values of data-page on the elements that can be clicked
ClickPages == {"projects", "blog"}

\* pages passed to navigateTo by a script (window.app.navigateTo)
CallPages == {"home", "projects"}

\* event.key of a keydown, as the digit it names
Keys == {1, 5}

\* location.pathname at load: the file name after the last '/' and its extension
Path(file, ext) == [file |-> file, ext |-> ext]

InitialPaths == {Path("", ""), Path("index", ".html"), Path("about", ".html")}

NullState == [kind |-> "null", page |-> "undefined"]

\* a state object whose page is undefined, as navigateTo() without an
\* argument pushes it
NoPageState == [kind |-> "object", page |-> "undefined"]

\* the entry the session starts at: its state is null on a fresh load and is
\* kept by the browser over a reload
InitialEntries ==
  {[state |-> NullState, url |-> path] : path \in InitialPaths}
    \cup {[state |-> NoPageState, url |-> Path("", "")]}

PageState(p) == [kind |-> "object", page |-> p]

\* the .navbar-link and .footer-link[data-page] elements of the document
Links == [kind : {"navbar", "footer"}, page : {pages[i] : i \in 1 .. Len(pages)}]

(* --------------------------- pure functions --------------------------- *)

\* getPageFromURL
GetPageFromURL(path) ==
  LET last == IF path.ext = ".html" THEN path.file ELSE path.file \o path.ext
      p == IF last = "" THEN "home" ELSE last
  IN  IF p = "index" THEN "home" ELSE p

\* GetPageContent as a switch without its default branch
GetPageContentNoDefault(p) ==
  CASE p = "home" -> "homeContent"
    [] p = "about" -> "aboutContent"
    [] p = "projects" -> "projectsContent"
    [] p = "contact" -> "contactContent"
    [] OTHER -> "undefined"

\* getPageContent
GetPageContent(p) ==
  CASE p = "home" -> "homeContent"
    [] p = "about" -> "aboutContent"
    [] p = "projects" -> "projectsContent"
    [] p = "contact" -> "contactContent"
    [] OTHER -> "404Content"

\* the .animate-on-scroll elements of a content: the four page payloads carry
\* some, the 404 payload, the error payload and the static document none
ElementsOf(c) ==
  IF c \in {"homeContent", "aboutContent", "projectsContent", "contactContent"}
  THEN 1 .. NumElements
  ELSE {}

\* getErrorContent
GetErrorContent == "errorContent"

\* updatePageTitle (the titles in ASCII)
PageTitle(p) ==
  CASE p = "home" -> "Birtney666 - home"
    [] p = "about" -> "about - Birtney666"
    [] p = "projects" -> "projects - Birtney666"
    [] p = "contact" -> "contact - Birtney666"
    [] OTHER -> "Birtney666 - home"

\* UrlOf with the '.html' suffix the legacy controller appends
UrlOfHtml(p) == IF p = "home" THEN Path("", "") ELSE Path(p, ".html")

\* the URL navigateTo computes
UrlOf(p) == IF p = "home" THEN Path("", "") ELSE Path(p, "")

\* history.pushState({page}, '', url) with the current entry at position i
PushState(i, p) ==
  /\ entries' = Append(SubSeq(entries, 1, i), [state |-> PageState(p), url |-> UrlOf(p)])
  /\ idx' = i + 1

\* the URL the browser shows
Url == entries[idx].url

\* the steps a host may make throw
SyncFaults == IF host.faulty THEN {"none", "updateNavigation", "fadeOut"} ELSE {"none"}

SwapFaults == IF host.faulty THEN {"none", "getPageContent", "innerHTML", "fadeIn"}
              ELSE {"none"}

PostFaults == IF host.faulty THEN {"none", "setupScrollAnimations", "dispatchPageLoadEvent"}
              ELSE {"none"}

(* ------------------------------- Init --------------------------------- *)

\* a browser: #main-content may be missing from the document, and
\* IntersectionObserver and native lazy loading may be missing from the browser
Hosts == [container : BOOLEAN, io : BOOLEAN, lazy : BOOLEAN, faulty : {FALSE}]

\* a complete browser in which a DOM call may throw
FaultyHosts == {[container |-> TRUE, io |-> TRUE, lazy |-> TRUE, faulty |-> TRUE]}

InitWith(hosts) ==
  /\ host \in hosts
  /\ ready = FALSE
  /\ currentPage = "home"
  /\ isLoading = FALSE
  /\ pc = "idle"
  /\ page = "none"
  /\ content = "static"
  /\ activeNav = {}
  /\ title = "static"
  /\ animationObserver = "null"
  /\ pageLoaded = "none"
  /\ steps = <<>>
  /\ listenerNav = "none"
  /\ connected = 0
  /\ observed = {}
  /\ inView = {}
  /\ visible = {}
  /\ \E entry \in InitialEntries : entries = <<entry>>
  /\ idx = 1
  /\ ev = [kind |-> "none", arg |-> "none", busy |-> FALSE]
  /\ fadeLeft = 0
  /\ loops = {}
  /\ renderTimers = <<>>

\* the page chrome of the static document: the navbar is not 'scrolled',
\* the mobile menu is closed, no frame callback or resize timer is pending;
\* the browser may have restored a scroll offset
InitChrome(offsets) ==
  /\ scrollTop \in offsets
  /\ scrolled = FALSE
  /\ isScrolling = FALSE
  /\ rafScroll = 0
  /\ scrollSeen = FALSE
  /\ ariaExpanded = "false"
  /\ navOpen = FALSE
  /\ resizeTimer = 0
  /\ resizeTimers = {}
  /\ sinceResize = ResizeMs
  /\ resizeRuns = 0

Init == InitWith(Hosts) /\ InitChrome({0})

\* the session starts at /about.html
StartsAtAbout == entries = <<[state |-> NullState, url |-> Path("about", ".html")]>>

InitFault == InitWith(FaultyHosts) /\ StartsAtAbout /\ InitChrome({0})

(* ------------------------------ loadPage ------------------------------ *)

\* NavigateToGuard with the check left out
NavigateToUnguarded == FALSE

\* navigateTo's guard
NavigateToGuard == isLoading

\* LoadPageGuard with the check left out
LoadPageUnguarded == FALSE

\* loadPage's guard
LoadPageGuard == isLoading

\* Finally without the reset of isLoading
FinallyKeepsLoading ==
  /\ isLoading' = isLoading
  /\ pc' = "idle"
  /\ page' = "none"
  /\ fadeLeft' = 0

\* the finally block of loadPage
Finally ==
  /\ isLoading' = FALSE
  /\ pc' = "idle"
  /\ page' = "none"
  /\ fadeLeft' = 0

\* mainContent.innerHTML = c: the elements of the old content leave the
\* document and those of c are created
SetInnerHTML(c) ==
  /\ content' = c
  /\ observed' = {}
  /\ inView' = {}
  /\ visible' = {}

\* Catch that leaves the container as it is
CatchWithoutPayload(done) ==
  /\ UNCHANGED <<content, observed, inView, visible>>
  /\ steps' = Append(done, "error")
  /\ Finally

\* the catch block of loadPage, then its finally block
Catch(done) ==
  /\ SetInnerHTML(GetErrorContent)
  /\ steps' = Append(done, "error")
  /\ Finally

\* StartTransition with fadeOut not awaited: the content is replaced at once
StartTransitionNoAwait(p) ==
  /\ isLoading' = TRUE
  /\ pc' = "fadeOut"
  /\ fadeLeft' = FadeOutMs
  /\ page' = p
  /\ steps' = <<"fadeOut", "swap">>
  /\ SetInnerHTML(GetPageContent(p))

\* try { await this.fadeOut(mainContent): the fade-out styles are set, the
\* 150 ms timer is scheduled and loadPage is suspended
StartTransition(p) ==
  /\ isLoading' = TRUE
  /\ pc' = "fadeOut"
  /\ fadeLeft' = FadeOutMs
  /\ page' = p
  /\ steps' = <<"fadeOut">>
  /\ UNCHANGED <<content, observed, inView, visible>>

\* Abort without the reset of isLoading
AbortKeepsLoading ==
  /\ isLoading' = TRUE
  /\ steps' = <<"aborted">>
  /\ UNCHANGED <<pc, page, content, observed, inView, visible, fadeLeft>>

\* the return of loadPage where #main-content is missing
Abort ==
  /\ isLoading' = FALSE
  /\ steps' = <<"aborted">>
  /\ UNCHANGED <<pc, page, content, observed, inView, visible, fadeLeft>>

\* UpdateNavigation that marks the links of p and unmarks none
UpdateNavigationAddsOnly(p) == activeNav' = activeNav \cup {l \in Links : l.page = p}

\* updateNavigation
UpdateNavigation(p) == activeNav' = {l \in Links : l.page = p}

\* loadPage from its call to its first await (or to its return)
LoadPage(p, pushState, fault) ==
  IF LoadPageGuard
  THEN UNCHANGED loadVars
  ELSE /\ currentPage' = p
       /\ IF fault = "updateNavigation"
          THEN /\ isLoading' = TRUE
               /\ steps' = <<"threw">>
               /\ UNCHANGED <<pc, page, content, activeNav, observed, inView, visible,
                               fadeLeft>>
          ELSE /\ UpdateNavigation(p)
               /\ IF ~host.container
                  THEN Abort
                  ELSE IF fault = "fadeOut"
                  THEN Catch(<<>>)
                  ELSE StartTransition(p)

\* navigateTo; i is the position of the current history entry
NavigateTo(p, fault, i) ==
  IF NavigateToGuard
  THEN UNCHANGED loadVars /\ entries' = entries /\ idx' = i
  ELSE /\ LoadPage(p, TRUE, fault)
       /\ PushState(i, p)

\* handleNavigation, for a click inside an element with data-page = p
HandleNavigation(p, fault, i) ==
  IF p = currentPage \/ isLoading
  THEN UNCHANGED loadVars /\ entries' = entries /\ idx' = i
  ELSE NavigateTo(p, fault, i)

\* handleKeyboardNavigation
HandleKeyboardNavigation(altKey, key, fault, i) ==
  IF altKey /\ key >= 1 /\ key <= 4
  THEN NavigateTo(pages[key], fault, i)
  ELSE UNCHANGED loadVars /\ entries' = entries /\ idx' = i

\* HandlePopState replaying through navigateTo
HandlePopStateNavigates(state, fault, i) ==
  NavigateTo(IF state.kind # "null" THEN state.page ELSE "home", fault, i)

\* handlePopState; i is the position of the entry the browser moved to
HandlePopState(state, fault, i) ==
  /\ LoadPage(IF state.kind # "null" THEN state.page ELSE "home", FALSE, fault)
  /\ entries' = entries
  /\ idx' = i

(* ------------------------- observer and events ----------------------- *)

Connected(o) == o \notin {"null", "disconnected"}

\* NewObserver without the disconnect of the observer before it
NewObserverKeepsOld(c) ==
  /\ connected' = connected + 1
  /\ animationObserver' = c

\* setupScrollAnimations: the observer before is disconnected and a new one is
\* created, which observes the .animate-on-scroll elements of the document,
\* whose content is c
NewObserver(c) ==
  /\ connected' = (IF Connected(animationObserver) THEN connected - 1 ELSE connected) + 1
  /\ animationObserver' = c

\* setupScrollAnimations where new IntersectionObserver throws: the observer
\* before is disconnected and stays in this.animationObserver
NoNewObserver ==
  /\ connected' = IF Connected(animationObserver) THEN connected - 1 ELSE connected
  /\ animationObserver' = IF animationObserver = "null" THEN "null" ELSE "disconnected"

\* the callback of the observer for one entry
ObserverCallbackKeepsWatching(e, isIntersecting) ==
  /\ inView' = IF isIntersecting THEN inView \cup {e} ELSE inView
  /\ observed' = observed

\* the callback of the observer for one entry
ObserverCallback(e, isIntersecting) ==
  IF isIntersecting
  THEN /\ inView' = inView \cup {e}
       /\ observed' = observed \ {e}
  ELSE UNCHANGED <<inView, observed>>

\* DispatchPageLoadEvent with the page of the URL instead of the parameter
DispatchStalePage(p, calls) ==
  /\ pageLoaded' = GetPageFromURL(entries[1].url)
  /\ listenerNav' = IF calls THEN (IF NavigateToGuard THEN "dropped" ELSE "accepted")
                    ELSE listenerNav

\* dispatchPageLoadEvent: the listeners of pageLoaded run inside dispatchEvent,
\* and one of them may call navigateTo (calls), which meets the guard as it
\* stands at that moment
DispatchPageLoadEvent(p, calls) ==
  /\ pageLoaded' = p
  /\ listenerNav' = IF calls THEN (IF NavigateToGuard THEN "dropped" ELSE "accepted")
                    ELSE listenerNav

\* smoothScrollTo(0): a requestAnimationFrame loop is started, which takes
\* the time of its first frame as its start
SmoothScrollTo == loops' = loops \cup {[started |-> FALSE, elapsed |-> 0]}

\* one frame of the loops of smoothScrollTo: each calls window.scrollTo and
\* requests the next frame while less than its duration has elapsed
Animation ==
  loops' = {[started |-> TRUE, elapsed |-> l.elapsed] :
              l \in {k \in loops : ~k.started \/ k.elapsed < ScrollMs}}

(* ------------------------------- chrome ------------------------------- *)

\* HandleScroll without the flag isScrolling
HandleScrollNoFlag ==
  /\ rafScroll' = rafScroll + 1
  /\ isScrolling' = TRUE

\* handleScroll of setupScrollEffects
HandleScroll ==
  IF ~isScrolling
  THEN /\ rafScroll' = rafScroll + 1
       /\ isScrolling' = TRUE
  ELSE UNCHANGED <<rafScroll, isScrolling>>

\* the frame callbacks handleScroll has requested
ScrollFrame ==
  IF rafScroll > 0
  THEN /\ scrolled' = (scrollTop > ScrollThreshold)
       /\ isScrolling' = FALSE
       /\ rafScroll' = 0
  ELSE UNCHANGED <<scrolled, isScrolling, rafScroll>>

\* HandleMobileMenu that toggles the class only
HandleMobileMenuClassOnly ==
  /\ ariaExpanded' = ariaExpanded
  /\ navOpen' = ~navOpen

\* handleMobileMenu
HandleMobileMenu ==
  LET isExpanded == ariaExpanded = "true" IN
  /\ ariaExpanded' = IF isExpanded THEN "false" ELSE "true"
  /\ navOpen' = ~navOpen

\* closeMobileMenu
CloseMobileMenu ==
  /\ ariaExpanded' = "false"
  /\ navOpen' = FALSE

\* handleResize
HandleResize == CloseMobileMenu

\* ClearTimeout that cancels nothing
ClearTimeoutNoOp(timers, id) == timers

\* clearTimeout(id)
ClearTimeout(timers, id) == {t \in timers : t.id # id}

\* the id setTimeout returns: one no pending timer has and that was not
\* returned last
NewTimerId(timers, last) ==
  CHOOSE i \in 1 .. Cardinality(timers) + 2 :
    i # last /\ \A t \in timers : t.id # i

Min(a, b) == IF a < b THEN a ELSE b

\* the time left on a timer after one step of the clock
After(left) == IF left > TickMs THEN left - TickMs ELSE 0

(* ------------------------------ actions ------------------------------- *)

Event(kind, arg) == [kind |-> kind, arg |-> arg, busy |-> isLoading]

\* a navigation that would push keeps the history within its bound
Room(wouldPush) == wouldPush => idx < MaxHistory

\* setup(), run by init() or by DOMContentLoaded: the listeners are installed,
\* setupAnimations creates the observer where IntersectionObserver exists,
\* setupLazyLoading throws where neither native lazy loading nor
\* IntersectionObserver exists (setup then ends before its loadPage), and
\* the page of the URL is loaded
Setup ==
  /\ ~ready
  /\ ready' = TRUE
  /\ ev' = Event("setup", GetPageFromURL(Url))
  /\ UNCHANGED <<host, histVars, title, pageLoaded, listenerNav, loops>>
  /\ UNCHANGED <<chromeVars, renderTimers>>
  /\ IF host.io THEN NewObserver(content) ELSE UNCHANGED <<animationObserver, connected>>
  /\ IF ~host.lazy /\ ~host.io
     THEN UNCHANGED loadVars
     ELSE \E fault \in SyncFaults : LoadPage(GetPageFromURL(Url), FALSE, fault)

\* a click on a .navbar-link carrying data-page: handleNavigation runs, and
\* the listener of .navbar-nav closes the mobile menu
Click ==
  /\ ready
  /\ \E p \in ClickPages :
       /\ Room(p # currentPage /\ ~isLoading)
       /\ ev' = Event("click", p)
       /\ \E fault \in SyncFaults : HandleNavigation(p, fault, idx)
  /\ UNCHANGED <<host, ready, doneVars>>
  /\ CloseMobileMenu
  /\ UNCHANGED <<scrollVars, resizeVars, renderTimers>>

\* a keydown
KeyDown ==
  /\ ready
  /\ \E altKey \in BOOLEAN, key \in Keys :
       /\ Room(altKey /\ key <= 4 /\ ~isLoading)
       /\ ev' = Event(IF altKey THEN "altkey" ELSE "key", IF key <= 4 THEN pages[key] ELSE "none")
       /\ \E fault \in SyncFaults : HandleKeyboardNavigation(altKey, key, fault, idx)
  /\ UNCHANGED <<host, ready, doneVars>>
  /\ UNCHANGED <<chromeVars, renderTimers>>

\* a script calls window.app.navigateTo
Call ==
  /\ ready
  /\ \E p \in CallPages :
       /\ Room(~isLoading)
       /\ ev' = Event("navigateTo", p)
       /\ \E fault \in SyncFaults : NavigateTo(p, fault, idx)
  /\ UNCHANGED <<host, ready, doneVars>>
  /\ UNCHANGED <<chromeVars, renderTimers>>

\* the user goes back or forward: the browser moves to the entry, shows its
\* URL and fires popstate with its state
PopState ==
  /\ ready
  /\ \E j \in {idx - 1, idx + 1} \cap (1 .. Len(entries)) :
       /\ ev' = Event("popstate", IF entries[j].state.kind # "null"
                                   THEN entries[j].state.page ELSE "home")
       /\ \E fault \in SyncFaults : HandlePopState(entries[j].state, fault, j)
  /\ UNCHANGED <<host, ready, doneVars>>
  /\ UNCHANGED <<chromeVars, renderTimers>>

\* the 150 ms timer of fadeOut fires and loadPage runs on to its second await
Timer150 ==
  /\ pc = "fadeOut"
  /\ ev' = Event("timer150", page)
  /\ \E fault \in SwapFaults :
       LET done == Append(steps, "fadeOutElapsed") IN
       IF fault \in {"getPageContent", "innerHTML"}
       THEN Catch(done)
       ELSE IF fault = "fadeIn"
       THEN Catch(done \o <<"swap">>)
       ELSE /\ SetInnerHTML(GetPageContent(page))
            /\ pc' = "fadeIn"
            /\ fadeLeft' = FadeInMs
            /\ steps' = done \o <<"swap", "fadeIn">>
            /\ UNCHANGED <<isLoading, page>>
  /\ UNCHANGED <<host, ready, currentPage, activeNav, doneVars, histVars>>
  /\ UNCHANGED <<chromeVars, renderTimers>>

\* the 250 ms timer of fadeIn fires and loadPage runs to its end
Timer250 ==
  /\ pc = "fadeIn"
  /\ ev' = Event("timer250", page)
  /\ \E fault \in PostFaults, calls \in BOOLEAN :
       LET done == Append(steps, "fadeInElapsed") IN
       IF ~host.io \/ fault = "setupScrollAnimations"
       THEN /\ NoNewObserver
            /\ Catch(done)
            /\ UNCHANGED <<title, pageLoaded, listenerNav, loops>>
       ELSE /\ NewObserver(content)
            /\ SmoothScrollTo
            /\ title' = PageTitle(page)
            /\ IF fault = "dispatchPageLoadEvent"
               THEN /\ Catch(done \o <<"observers", "scrollTop", "title">>)
                    /\ UNCHANGED <<pageLoaded, listenerNav>>
               ELSE /\ DispatchPageLoadEvent(page, calls)
                    /\ steps' = done \o <<"observers", "scrollTop", "title", "pageLoaded">>
                    /\ content' = content
                    /\ observed' = ElementsOf(content)
                    /\ UNCHANGED <<inView, visible>>
                    /\ Finally
  /\ UNCHANGED <<host, ready, currentPage, activeNav, histVars>>
  /\ UNCHANGED <<chromeVars, renderTimers>>

\* the user scrolls: an element of the content enters or leaves the viewport,
\* and the connected observer reports it where it watches the element
Intersect ==
  /\ ready
  /\ ev' = Event("intersect", "none")
  /\ \E e \in ElementsOf(content) :
       /\ visible' = IF e \in visible THEN visible \ {e} ELSE visible \cup {e}
       /\ IF e \in observed /\ connected > 0
          THEN ObserverCallback(e, e \notin visible)
          ELSE UNCHANGED <<inView, observed>>
  /\ UNCHANGED <<host, ready, currentPage, isLoading, pc, page, content, activeNav,
                 steps, doneVars, histVars, fadeLeft>>
  /\ UNCHANGED <<chromeVars, renderTimers>>

Next == Setup \/ Click \/ KeyDown \/ Call \/ PopState \/ Timer150 \/ Timer250

Spec == Init /\ [][Next]_vars

\* a host whose DOM calls may throw
SpecFault == InitFault /\ [][Next]_vars

\* every timer that is scheduled fires
FairSpec == Spec /\ WF_vars(Timer150) /\ WF_vars(Timer250)

\* a complete browser whose user also scrolls
CompleteHosts == {[container |-> TRUE, io |-> TRUE, lazy |-> TRUE, faulty |-> FALSE]}

InitReveal == InitWith(CompleteHosts) /\ StartsAtAbout /\ InitChrome({0})

NextReveal == Next \/ Intersect

SpecReveal == InitReveal /\ [][NextReveal]_vars

(* --------------------------- the page in time ------------------------- *)

routerVars == <<host, ready, currentPage, isLoading, pc, page, content, activeNav,
                title, animationObserver, pageLoaded, steps, listenerNav, connected,
                observed, inView, visible, entries, idx>>

\* the timer of fadeOut fires when it is due
Timeout150 == fadeLeft = 0 /\ Timer150

\* the timer of fadeIn fires when it is due
Timeout250 == fadeLeft = 0 /\ Timer250

\* the user scrolls to another offset and the scroll event is handled
Scroll ==
  /\ ready
  /\ ev' = Event("scroll", IF isScrolling THEN "coalesced" ELSE "requested")
  /\ \E y \in ScrollOffsets \ {scrollTop} : scrollTop' = y
  /\ HandleScroll
  /\ scrollSeen' = TRUE
  /\ UNCHANGED <<routerVars, fadeLeft, loops, scrolled, menuVars, resizeVars,
                 renderTimers>>

\* an animation frame: the frame callbacks that are pending run
Frame ==
  /\ rafScroll > 0 \/ \E l \in loops : ~l.started \/ l.elapsed >= ScrollMs
  /\ ev' = Event("frame", "none")
  /\ ScrollFrame
  /\ Animation
  /\ UNCHANGED <<routerVars, fadeLeft, scrollTop, scrollSeen, menuVars, resizeVars,
                 renderTimers>>

\* a click on .navbar-toggle (it carries no data-page)
ToggleClick ==
  /\ ready
  /\ ev' = Event("toggle", "none")
  /\ HandleMobileMenu
  /\ UNCHANGED <<routerVars, fadeLeft, loops, scrollVars, resizeVars, renderTimers>>

\* a keydown of Escape
Escape ==
  /\ ready
  /\ ev' = Event("escape", "none")
  /\ CloseMobileMenu
  /\ UNCHANGED <<routerVars, fadeLeft, loops, scrollVars, resizeVars, renderTimers>>

\* a resize event: the listener cancels its timer and schedules a new one
Resize ==
  /\ ready
  /\ ev' = Event("resize", IF \E t \in resizeTimers : t.id = resizeTimer
                            THEN "rescheduled" ELSE "scheduled")
  /\ LET kept == ClearTimeout(resizeTimers, resizeTimer)
         id == NewTimerId(resizeTimers, resizeTimer)
     IN  /\ resizeTimers' = kept \cup {[id |-> id, left |-> ResizeMs]}
         /\ resizeTimer' = id
  /\ sinceResize' = 0
  /\ resizeRuns' = 0
  /\ UNCHANGED <<routerVars, fadeLeft, loops, scrollVars, menuVars, renderTimers>>

\* a timer of the resize listener fires when it is due
ResizeTimeout ==
  /\ ev' = Event("resizeTimeout", "none")
  /\ \E t \in resizeTimers :
       /\ t.left = 0
       /\ resizeTimers' = resizeTimers \ {t}
  /\ HandleResize
  /\ resizeRuns' = resizeRuns + 1
  /\ UNCHANGED <<routerVars, fadeLeft, loops, scrollVars, resizeTimer, sinceResize,
                 renderTimers>>

\* TickMs pass: no timer is due and no frame callback is waiting for its
\* first or last frame (timers fire when due, frames come at least once in
\* TickMs)
Tick ==
  /\ pc # "idle" \/ resizeTimers # {} \/ loops # {}
  /\ pc # "idle" => fadeLeft > 0
  /\ \A t \in resizeTimers : t.left > 0
  /\ \A l \in loops : l.started /\ l.elapsed < ScrollMs
  /\ rafScroll = 0
  /\ ev' = Event("tick", "none")
  /\ fadeLeft' = After(fadeLeft)
  /\ resizeTimers' = {[t EXCEPT !.left = After(t.left)] : t \in resizeTimers}
  /\ sinceResize' = Min(sinceResize + TickMs, ResizeMs)
  /\ loops' = {[l EXCEPT !.elapsed = Min(l.elapsed + TickMs, ScrollMs)] : l \in loops}
  /\ UNCHANGED <<routerVars, scrollVars, menuVars, resizeTimer, resizeRuns,
                 renderTimers>>

InitPage == InitWith(CompleteHosts) /\ StartsAtAbout /\ InitChrome({0})

NextTimed ==
  Setup \/ Click \/ PopState \/ Timeout150 \/ Timeout250 \/ Frame \/ Tick

\* the router in a complete browser, with the clock
SpecTimed == InitPage /\ [][NextTimed]_vars

InitScroll == InitWith(CompleteHosts) /\ StartsAtAbout /\ InitChrome(ScrollOffsets)

NextScroll == Setup \/ Timeout150 \/ Timeout250 \/ Frame \/ Tick \/ Scroll

\* the initial load and the navbar's scroll listener, with the clock
SpecScroll == InitScroll /\ [][NextScroll]_vars

NextMenu ==
  \/ Setup \/ Click \/ Timeout150 \/ Timeout250 \/ Frame \/ Tick
  \/ ToggleClick \/ Escape \/ Resize \/ ResizeTimeout

\* the mobile menu and the resize listener beside navbar clicks, with the clock
SpecMenu == InitPage /\ [][NextMenu]_vars

(* ------------------- ModernWebsite (src/unnamed/part_000) ------------- *)
(* The earlier controller of the same site: it has no isLoading, renders    *)
(* after one 150 ms timer and keeps its page in currentPage. Its document   *)
(* has .main-content and its browser IntersectionObserver: its constructor  *)
(* calls loadPage and setupAnimations, which throw without them.            *)

\* data-page of the .nav-link elements that are clicked
LegacyClickPages == {"home", "projects", "blog"}

\* getCurrentPage
GetCurrentPage(path) ==
  LET last == IF path.ext = ".html" THEN path.file ELSE path.file \o path.ext
      p == IF last = "" THEN "index" ELSE last
  IN  IF p = "index" THEN "home" ELSE p

\* the switch of renderPage
RenderedContent(p) ==
  CASE p = "home" -> "homeContent"
    [] p = "about" -> "aboutContent"
    [] p = "projects" -> "projectsContent"
    [] p = "contact" -> "contactContent"
    [] OTHER -> "404Content"

\* the URL ModernWebsite.navigateTo computes
LegacyUrlOf(p) == IF p = "home" THEN Path("", "") ELSE Path(p, ".html")

\* setupAnimations: one more observer, none is ever disconnected
SetupAnimations == connected' = Min(connected + 1, MaxObservers)

\* RenderPage whose timer fires before those scheduled earlier
RenderPageFiresFirst(p) == renderTimers' = <<p>> \o renderTimers

\* renderPage: the fade-out styles are set and the render timer is scheduled
RenderPage(p) == renderTimers' = Append(renderTimers, p)

\* ModernWebsite.loadPage
LegacyLoadPage(p) ==
  /\ currentPage' = p
  /\ activeNav' = {l \in Links : l.kind = "navbar" /\ l.page = p}
  /\ RenderPage(p)
  /\ scrollTop' = 0

\* LegacyGuard with the check left out
LegacyUnguarded(p) == FALSE

\* the guard of ModernWebsite.navigateTo
LegacyGuard(p) == p = currentPage

\* ModernWebsite.navigateTo
LegacyNavigateTo(p) ==
  IF LegacyGuard(p)
  THEN UNCHANGED <<currentPage, activeNav, renderTimers, scrollTop, entries, idx>>
  ELSE /\ LegacyLoadPage(p)
       /\ entries' = Append(SubSeq(entries, 1, idx),
                            [state |-> PageState(p), url |-> LegacyUrlOf(p)])
       /\ idx' = idx + 1

legacyRest == <<host, isLoading, pc, page, title, animationObserver, pageLoaded, steps,
                listenerNav, fadeLeft, loops, scrolled, isScrolling, rafScroll,
                scrollSeen, ariaExpanded, resizeVars>>

\* new ModernWebsite() on DOMContentLoaded
LegacySetup ==
  /\ ~ready
  /\ ready' = TRUE
  /\ ev' = Event("construct", GetCurrentPage(Url))
  /\ SetupAnimations
  /\ LegacyLoadPage(GetCurrentPage(Url))
  /\ UNCHANGED <<legacyRest, content, observed, inView, visible, histVars, navOpen>>

\* a click on a .nav-link: navigateTo runs, and the listener of the link
\* closes the mobile menu
LegacyClick ==
  /\ ready
  /\ \E p \in LegacyClickPages :
       /\ ~LegacyGuard(p) => (idx < MaxHistory /\ Len(renderTimers) < MaxTimers)
       /\ ev' = Event("navLink", p)
       /\ LegacyNavigateTo(p)
  /\ navOpen' = FALSE
  /\ UNCHANGED <<legacyRest, ready, content, observed, inView, visible, connected>>

\* the user goes back or forward
LegacyPopState ==
  /\ ready
  /\ Len(renderTimers) < MaxTimers
  /\ \E j \in {idx - 1, idx + 1} \cap (1 .. Len(entries)) :
       LET p == IF entries[j].state.kind # "null" THEN entries[j].state.page ELSE "home"
       IN  /\ ev' = Event("replay", p)
           /\ LegacyLoadPage(p)
           /\ idx' = j
  /\ UNCHANGED <<legacyRest, ready, content, observed, inView, visible, connected,
                 entries, navOpen>>

\* the render timer scheduled first fires; busy records that the event
\* before was the render of a page that was no longer current
LegacyTimer ==
  /\ renderTimers # <<>>
  /\ ev' = [kind |-> "render", arg |-> Head(renderTimers),
            busy |-> ev.kind = "render" /\ ev.arg # currentPage]
  /\ SetInnerHTML(RenderedContent(Head(renderTimers)))
  /\ renderTimers' = Tail(renderTimers)
  /\ SetupAnimations
  /\ UNCHANGED <<legacyRest, ready, currentPage, activeNav, scrollTop, histVars, navOpen>>

InitLegacy == InitWith(CompleteHosts) /\ InitChrome({0})

NextLegacy == LegacySetup \/ LegacyClick \/ LegacyPopState \/ LegacyTimer

SpecLegacy == InitLegacy /\ [][NextLegacy]_vars

(* ------------------------------ claims -------------------------------- *)

NavKinds == {"click", "altkey", "navigateTo"}

TimerKinds == {"timer150", "timer250"}

Last(s) == s[Len(s)]

IsPrefix(s, t) == Len(s) <= Len(t) /\ SubSeq(t, 1, Len(s)) = s

\* C1: a navigation request handled while isLoading is true (navigateTo, a
\* click on a data-page element, Alt+digit, or the loadPage of a popstate)
\* changes nothing of the router, the document or the history stack, and a
\* click, shortcut or navigateTo leaves the URL as it is; a navigateTo
\* accepted when idle starts one transition and pushes one entry, so that a
\* second navigateTo directly after it finds isLoading true and does nothing.
C1_BusyRequestIsNoOp ==
  [][ /\ (ev'.kind \in NavKinds \cup {"popstate"} /\ isLoading)
           => /\ UNCHANGED <<loadVars, doneVars, entries>>
              /\ ev'.kind \in NavKinds => idx' = idx
      /\ (ev'.kind = "navigateTo" /\ ~isLoading /\ host.container)
           => /\ isLoading' /\ pc' = "fadeOut" /\ page' = ev'.arg
              /\ Len(entries') = idx + 1 /\ idx' = idx + 1
    ]_vars

\* C1 witness: navigateTo(p) was called while the transition to p started by
\* the call before it is still fading out
C1_Witness ==
  /\ ev.kind = "navigateTo" /\ ev.busy /\ ev.arg = page
  /\ pc = "fadeOut" /\ entries[idx].state = PageState(page)

\* C2: navigateTo(p) with p = currentPage while isLoading is false, from a
\* script or from the Alt+digit shortcut, changes nothing.
C2_SamePageIsNoOp ==
  [][ (ev'.kind \in {"navigateTo", "altkey"} /\ ~isLoading /\ ev'.arg = currentPage)
        => UNCHANGED <<loadVars, doneVars, histVars>> ]_vars

\* C3: a click or navigateTo from page A to another page B, accepted while
\* isLoading is false, runs one loadPage body for B, sets currentPage to B
\* and pushes exactly one entry of state {page: B} and URL '/' for home and
\* '/B' otherwise; the transition it starts ends with currentPage = B.
C3_UserNavigationPushesOnce ==
  [][ /\ (ev'.kind \in {"click", "navigateTo"} /\ ~isLoading /\ ev'.arg # currentPage)
           => /\ currentPage' = ev'.arg
              /\ steps' = IF host.container THEN <<"fadeOut">> ELSE <<"aborted">>
              /\ host.container => (isLoading' /\ page' = ev'.arg)
              /\ idx' = idx + 1
              /\ entries' = Append(SubSeq(entries, 1, idx),
                                   [state |-> [kind |-> "object", page |-> ev'.arg],
                                    url |-> IF ev'.arg = "home"
                                            THEN [file |-> "", ext |-> ""]
                                            ELSE [file |-> ev'.arg, ext |-> ""]])
      /\ (isLoading /\ ~isLoading') => (currentPage' = page /\ entries' = entries)
    ]_vars

\* C3 witness: the click on 'projects' at home has run its transition to the
\* end, and the current entry is {page: projects} at /projects
C3_Witness ==
  /\ ev.kind = "timer250" /\ ~isLoading /\ currentPage = "projects"
  /\ content = "projectsContent" /\ Len(entries) = 2 /\ idx = 2
  /\ entries[1].url = Path("", "")
  /\ entries[2] = [state |-> PageState("projects"), url |-> Path("projects", "")]

\* C4: a popstate event, idle or loading, and the initial load of setup leave
\* the entries of the history stack as they are.
C4_ReplayPushesNothing ==
  [][ /\ ev'.kind = "popstate" => entries' = entries
      /\ ev'.kind = "setup" => UNCHANGED histVars ]_vars

\* C4 witness: a popstate event handled when idle has started a transition
C4_Witness ==
  /\ ev.kind = "popstate" /\ ~ev.busy /\ pc = "fadeOut" /\ page = ev.arg
  /\ Len(entries) > 1

\* C5: no reachable state has isLoading true with no transition in progress,
\* whichever step of loadPage fails.
C5_LoadingAlwaysCleared == isLoading => pc # "idle"

\* C6: whenever isLoading is true it is eventually false again, the timers
\* of fadeOut and fadeIn firing.
C6_LoadingEnds == isLoading ~> ~isLoading

\* C6 witness: a transition that began has run to its end
C6_Witness ==
  /\ ev.kind = "timer250" /\ ev.busy /\ ~isLoading /\ pc = "idle"
  /\ Len(steps) > 1

\* C7: the steps of one transition occur in the order fade-out wait, content
\* replacement, fade-in wait, observers, scroll, title, pageLoaded; the content
\* changes only when a timer fires, to the page's payload only when the
\* fade-out timer fires, and no event handled during a wait changes it.
Order ==
  <<"fadeOut", "fadeOutElapsed", "swap", "fadeIn", "fadeInElapsed",
    "observers", "scrollTop", "title", "pageLoaded">>

C7_InOrder ==
  \/ steps \in {<<>>, <<"aborted">>}
  \/ IsPrefix(steps, Order)
  \/ Last(steps) = "error" /\ IsPrefix(SubSeq(steps, 1, Len(steps) - 1), Order)

C7_StepOrder ==
  /\ []C7_InOrder
  /\ [][ /\ content' # content => ev'.kind \in TimerKinds
         /\ (content' # content /\ content' # GetErrorContent)
              => (pc = "fadeOut" /\ ev'.kind = "timer150" /\ pc' = "fadeIn")
         /\ (pc = "fadeIn" /\ pc' = "fadeIn") => content' = content
       ]_vars

\* C7 witness: a click was handled during the fade-in wait of a transition
\* whose content is already replaced
C7_Witness ==
  /\ ev.kind = "click" /\ ev.busy /\ pc = "fadeIn"
  /\ content = GetPageContent(page) /\ steps = SubSeq(Order, 1, 4)

\* C8: isLoading is true exactly while a loadPage is suspended at one of its
\* waits, and from then until it is cleared no other loadPage body starts and
\* only the timers of that transition write currentPage, the content or the
\* steps of the transition.
C8_OneTransition ==
  /\ [](isLoading <=> pc # "idle")
  /\ [][ isLoading
           => /\ currentPage' = currentPage
              /\ page' \in {page, "none"}
              /\ IsPrefix(steps, steps')
              /\ <<content, pc, isLoading, steps>>' # <<content, pc, isLoading, steps>>
                   => ev'.kind \in TimerKinds
       ]_vars

\* C8 witness: a popstate event was handled while a transition to another
\* page was in its fade-in wait
C8_Witness ==
  /\ ev.kind = "popstate" /\ ev.busy /\ pc = "fadeIn" /\ ev.arg # page

\* C9: the history entries change only when a transition completes with
\* success.
C9_PushOnlyOnSuccess ==
  [][ entries' # entries
        => (ev'.kind = "timer250" /\ Last(steps') = "pageLoaded") ]_vars

\* C10: where #main-content exists, so that loadPage runs its transition,
\* currentPage changes after setup only in the step that completes a
\* transition: during the transition from A to B it is A.
C10_CurrentPageOnCompletion ==
  [][ (ready /\ host.container /\ currentPage' # currentPage)
        => (ev'.kind = "timer250" /\ ~isLoading') ]_vars

KnownPages == {"home", "about", "projects", "contact"}

\* the step dispatches a pageLoaded event
Dispatched == steps' # steps /\ steps' # <<>> /\ Last(steps') = "pageLoaded"

\* the step ends a loadPage body in its catch block
Caught == steps' # steps /\ steps' # <<>> /\ Last(steps') = "error"

\* C11: getPageContent maps home, about, projects and contact each to its own
\* payload and every other identifier to the not-found payload; where no
\* step throws, the step that calls it always goes on to the fade-in wait
\* (it does not throw) and changes nothing of the router but the content.
C11_ContentMapping ==
  [][ /\ (pc = "fadeOut" /\ pc' = "fadeIn")
           => /\ page \in KnownPages => content' = page \o "Content"
              /\ page \notin KnownPages => content' = "404Content"
              /\ UNCHANGED <<currentPage, isLoading, page, activeNav, title,
                             pageLoaded, entries, idx>>
      /\ (pc = "fadeOut" /\ ev'.kind = "timer150") => pc' = "fadeIn"
    ]_vars

\* C11 witness: the page undefined, replayed from a state object without a
\* page, is rendered as the not-found payload
C11_Witness ==
  /\ pc = "fadeIn" /\ page = "undefined" /\ content = "404Content"
  /\ ev.kind = "timer150"

\* C12: in a document without #main-content every loadPage is aborted: no
\* timer is pending, nothing is written to any content, no pageLoaded event
\* is dispatched, the title is unchanged and isLoading is false.
C12_MissingContainerAborts ==
  ~host.container
    => /\ ~isLoading /\ pc = "idle"
       /\ content = "static" /\ title = "static" /\ pageLoaded = "none"
       /\ steps \in {<<>>, <<"aborted">>}

\* C12 witness: a popstate replay was aborted for the missing container
C12_Witness ==
  /\ ~host.container /\ steps = <<"aborted">> /\ ev.kind = "popstate"
  /\ currentPage = ev.arg

\* C13: a loadPage body in which a step of the try block throws ends in the
\* catch block: the container shows the error payload, isLoading is false,
\* no pageLoaded event is dispatched, and loadPage is at rest again.
C13_Contained ==
  /\ []((pc = "idle" /\ ~isLoading /\ steps \notin {<<>>, <<"aborted">>, Order})
          => (Last(steps) = "error" /\ content = "errorContent"))
  /\ [][ Caught => /\ content' = "errorContent" /\ ~isLoading' /\ pc' = "idle"
                   /\ pageLoaded' = pageLoaded /\ listenerNav' = listenerNav
       ]_vars

\* C13 witness: fadeIn threw after the content was swapped
C13_Witness ==
  /\ steps = <<"fadeOut", "fadeOutElapsed", "swap", "error">>
  /\ content = "errorContent" /\ ~isLoading /\ pc = "idle"

\* C14: in a browser without IntersectionObserver the error payload is never
\* shown.
C14_NoErrorWithoutObserver == ~host.io => content # "errorContent"

\* C15: where #main-content exists, once setup has run and its loadPage is at
\* rest, with no other navigation since, currentPage is the page of the URL
\* and the title is that page's title.
C15_InitialLoad ==
  (/\ host.container /\ ready /\ ~isLoading /\ Len(entries) = 1
   /\ ev.kind \in {"setup", "timer250"})
    => LET p == IF entries[1].url.file \in {"", "index"} THEN "home"
                ELSE entries[1].url.file
       IN  /\ currentPage = p
           /\ title = IF p = "about" THEN "about - Birtney666" ELSE "Birtney666 - home"

\* C16: an accepted popstate replays the page of the entry's state where that
\* is one of home, about, projects and contact, and home otherwise.
C16_ReplayTarget ==
  [][ (ev'.kind = "popstate" /\ ~isLoading)
        => currentPage' = IF /\ entries[idx'].state.kind = "object"
                             /\ entries[idx'].state.page \in KnownPages
                          THEN entries[idx'].state.page
                          ELSE "home" ]_vars

\* C17: a pageLoaded event is dispatched only by the step that completes a
\* transition with success, once, after swap, fade-in and title update, with
\* detail.page the page of the transition, which is currentPage; every such
\* step dispatches it, and no other step does.
C17_PageLoadedOnce ==
  [][ /\ Dispatched
           => /\ ev'.kind = "timer250" /\ steps' = Order
              /\ pageLoaded' = page /\ page = currentPage /\ currentPage' = currentPage
              /\ content' = content /\ title' = PageTitle(page)
      /\ ~Dispatched => pageLoaded' = pageLoaded
      /\ (isLoading /\ ~isLoading' /\ ~Caught) => Dispatched
    ]_vars

\* C17 witness: the transition to projects has dispatched pageLoaded after a
\* click during it was rejected
C17_Witness ==
  /\ ev.kind = "timer250" /\ steps = Order /\ pageLoaded = "projects"
  /\ currentPage = "projects" /\ title = PageTitle("projects")
  /\ GetPageFromURL(entries[1].url) # "projects"

\* C18: a navigateTo called by a pageLoaded listener is never dropped by the
\* guard.
C18_ListenerNavigateAccepted == listenerNav # "dropped"

\* C19: an element with class in-view is no longer watched by the observer,
\* so that the callback never handles it again; the element the observer
\* reports as entering gets the class and is unobserved in that step; and
\* the class is lost only when the content is replaced.
C19_RevealOnce ==
  /\ [](inView \cap observed = {})
  /\ [][ /\ ev'.kind = "intersect"
              => \A e \in visible' \ visible :
                   (e \in observed /\ connected > 0)
                     => (e \in inView' /\ e \notin observed')
         /\ ev'.kind # "timer150" => inView \subseteq inView'
       ]_vars

\* C19 witness: a revealed element has left the viewport again while
\* another one is still watched
C19_Witness ==
  /\ ev.kind = "intersect"
  /\ \E e \in inView : e \notin visible
  /\ observed # {}

\* C20: at most one animation observer is connected, and after every
\* transition that completes with success the connected observer watches the
\* elements of the content now in the container.
C20_OneObserver ==
  /\ [](connected <= 1)
  /\ [][ (isLoading /\ ~isLoading' /\ ~Caught)
           => /\ connected' = 1
              /\ animationObserver' = content'
              /\ observed' = ElementsOf(content') ]_vars

\* C20 witness: a second transition has completed and the observer watches
\* the elements of its page
C20_Witness ==
  /\ steps = Order /\ ~isLoading /\ connected = 1
  /\ content = "projectsContent" /\ animationObserver = "projectsContent"
  /\ observed = 1 .. NumElements /\ Len(entries) > 1

\* the payload of page p
PayloadOf(p) == IF p \in KnownPages THEN p \o "Content" ELSE "404Content"

\* C22: a popstate replay whose target page is currentPage starts no
\* transition and writes nothing (the claim says the same of the initial
\* load).
C22_ReplayOfCurrentPageIsNoOp ==
  [][ (ev'.kind = "popstate" /\ ev'.arg = currentPage)
        => UNCHANGED <<isLoading, pc, page, content>> ]_vars

\* C23: a transition in flight is to currentPage and is neither cancelled nor
\* redirected: a click, shortcut, navigateTo or popstate handled during its
\* waits changes nothing of the router or the document, only its timers move
\* it on, the step that ends it leaves isLoading false, currentPage its page
\* and its payload (or, from the catch block, the error payload) in the
\* container, and, the timers firing, it does end.
C23_NoCancellation ==
  /\ [](pc # "idle" => (isLoading /\ page = currentPage))
  /\ [][ pc # "idle"
           => /\ ev'.kind \notin TimerKinds
                   => UNCHANGED <<currentPage, isLoading, pc, page, content, activeNav,
                                  title, steps, pageLoaded, animationObserver>>
              /\ currentPage' = currentPage
              /\ page' \in {page, "none"}
              /\ pc' = "idle"
                   => /\ ~isLoading'
                      /\ content' = IF Caught THEN "errorContent" ELSE PayloadOf(page)
                      /\ ~Caught => ev'.kind = "timer250"
       ]_vars
  /\ (pc # "idle") ~> (pc = "idle" /\ ~isLoading)

\* C23 witness: the transition to projects, started from the first entry, has
\* completed after a popstate back to that entry was handled during it
C23_Witness ==
  /\ ev.kind = "timer250" /\ steps = Order /\ ~isLoading
  /\ currentPage = "projects" /\ content = "projectsContent"
  /\ Len(entries) = 2 /\ idx = 1 /\ entries[2].state = PageState("projects")

\* C24: once a loadPage has passed the guard, a link carries 'active' and
\* aria-current exactly when its data-page is currentPage.
C24_HighlightFollowsCurrentPage ==
  steps # <<>> => \A l \in Links : l \in activeNav <=> l.page = currentPage

\* C24 witness: after projects, the unrecognized page blog is current and no
\* link is highlighted
C24_Witness ==
  /\ currentPage = "blog" /\ activeNav = {} /\ idx = 3
  /\ entries[2].state = PageState("projects") /\ pageLoaded = "projects"

\* C27: in a complete browser, whenever no transition is in flight,
\* currentPage is the page of the URL the browser shows.
C27_CurrentPageIsUrlPage ==
  (host.container /\ host.io /\ ready /\ ~isLoading)
    => currentPage = GetPageFromURL(Url)

\* C28: a loadPage aborted for the missing #main-content leaves currentPage
\* and the highlighted links as they were.
C28_AbortKeepsRouterState ==
  [][ ~host.container => (currentPage' = currentPage /\ activeNav' = activeNav) ]_vars

\* C21: at most one frame callback of the scroll handler is pending, and it
\* is pending exactly while isScrolling is set; the class 'scrolled' changes
\* only in an animation frame; and when a scroll event has been handled and
\* the frame after the last one has run, the navbar is 'scrolled' exactly
\* when the scroll offset exceeds 50 px.
C21_ScrollCoalesced ==
  /\ [](rafScroll <= 1)
  /\ [](isScrolling <=> rafScroll = 1)
  /\ []((scrollSeen /\ ~isScrolling) => (scrolled <=> scrollTop > 50))
  /\ [][scrolled' # scrolled => ev'.kind = "frame"]_vars

\* C21 witness: a second scroll event before the frame found the callback
\* pending; the offset is past the threshold and the class is not yet set
C21_Witness ==
  /\ ev.kind = "scroll" /\ ev.arg = "coalesced"
  /\ rafScroll = 1 /\ scrollTop = 51 /\ ~scrolled

\* C25: at most one timer of the resize listener is pending; after a resize
\* event its timer is due 250 ms after that event and no other is pending;
\* handleResize runs only when that timer fires, 250 ms after the last
\* resize event, once, closing the mobile menu, and leaves no timer behind.
C25_ResizeDebounced ==
  /\ [](Cardinality(resizeTimers) <= 1)
  /\ [](resizeTimer # 0
          => /\ resizeRuns \in {0, 1}
             /\ resizeRuns = 0
                  <=> resizeTimers = {[id |-> resizeTimer, left |-> 250 - sinceResize]}
             /\ resizeRuns = 1 => (resizeTimers = {} /\ sinceResize = 250))
  /\ [][ resizeRuns' > resizeRuns
           => (ev'.kind = "resizeTimeout" /\ sinceResize = 250 /\ ~navOpen') ]_vars

\* C25 witness: a resize event inside a burst has replaced the pending timer
\* while the mobile menu is open
C25_Witness ==
  /\ ev.kind = "resize" /\ ev.arg = "rescheduled"
  /\ Cardinality(resizeTimers) = 1 /\ sinceResize = 0 /\ navOpen

\* C29: aria-expanded of the toggle is 'true' exactly when .navbar-nav is
\* 'active'; a toggle click flips the menu; a navbar-link click, Escape and
\* the debounced resize leave it closed.
C29_MenuCarriersAgree ==
  /\ [](ariaExpanded = "true" <=> navOpen)
  /\ [][ ev'.kind = "toggle" => navOpen' = ~navOpen ]_vars
  /\ [][ ev'.kind \in {"click", "escape", "resizeTimeout"}
           => (~navOpen' /\ ariaExpanded' = "false") ]_vars

\* C29 witness: the menu has been opened by the toggle after a debounced
\* resize ran
C29_Witness ==
  /\ ev.kind = "toggle" /\ navOpen /\ ariaExpanded = "true" /\ resizeRuns = 1

\* C30: at most one loop of smoothScrollTo is running.
C30_OneScrollLoop == Cardinality(loops) <= 1

\* C26: ModernWebsite.navigateTo(page) with page = currentPage changes
\* neither currentPage nor the content, schedules no render and pushes
\* nothing; with another page it makes that page current, schedules its
\* render and pushes one entry after the current one, with state {page} and
\* URL '/' for home and '/<page>.html' otherwise.
C26_LegacyNavigateTo ==
  [][ ev'.kind = "navLink"
        => IF ev'.arg = currentPage
           THEN UNCHANGED <<currentPage, content, renderTimers, entries, idx>>
           ELSE /\ currentPage' = ev'.arg
                /\ renderTimers' = Append(renderTimers, ev'.arg)
                /\ idx' = idx + 1
                /\ Len(entries') = idx + 1
                /\ SubSeq(entries', 1, idx) = SubSeq(entries, 1, idx)
                /\ entries'[idx'] =
                     [state |-> [kind |-> "object", page |-> ev'.arg],
                      url |-> IF ev'.arg = "home" THEN [file |-> "", ext |-> ""]
                              ELSE [file |-> ev'.arg, ext |-> ".html"]]
    ]_vars

\* C26 witness: after a push of /projects.html and a step back to home, a
\* click on the home link has left currentPage and the history as they were
C26_Witness ==
  /\ ev.kind = "navLink" /\ ev.arg = "home" /\ currentPage = "home"
  /\ Len(entries) = 2 /\ idx = 1
  /\ entries[2] = [state |-> PageState("projects"), url |-> Path("projects", ".html")]

\* C31: in ModernWebsite, while render timers are pending the one scheduled
\* last is that of currentPage, and once every pending timer has fired the
\* content is the payload of currentPage.
C31_LegacyRenderSettles ==
  /\ renderTimers # <<>> => Last(renderTimers) = currentPage
  /\ (ready /\ renderTimers = <<>>) => content = PayloadOf(currentPage)

\* C31 witness: two render timers overlapped: the first rendered a page no
\* longer current, the second has fired and none is pending
C31_Witness ==
  /\ ev.kind = "render" /\ ev.busy /\ renderTimers = <<>>
  /\ ev.arg = currentPage /\ content = PayloadOf(currentPage)

====
